---- MODULE Spec2Model ----
(***************************************************************************)
(* A model of snwfdhmp/errlog: the logger facade (Debug, DebugSource,      *)
(* PrintSource, Doctor, Overload, Disable), the stack parser and the       *)
(* source-line heuristics (findFuncLine, findFailingLine,                  *)
(* deleteBlankLinesFromRange).                                             *)
(*                                                                         *)
(* Source lines are sequences of one-character strings; Go's 0-based       *)
(* indices are kept everywhere and At(s, i) reads element i of a Go slice. *)
(* A Go run-time panic (index or slice bound out of range, MustCompile on  *)
(* a malformed pattern) is the outcome "panicked"; os.Exit is "exited";    *)
(* unbounded recursion is "overflow".                                      *)
(***************************************************************************)
EXTENDS Integers, Sequences, FiniteSets, TLC

VARIABLES loggers, fsys, proc, last, goroutines

vars == <<loggers, fsys, proc, last, goroutines>>

----------------------------------------------------------------------------
(* Bounds of the model.                                                    *)

\* largest margin a caller puts in LinesBefore / LinesAfter
MaxMargin == 1

\* Overload is not called any more once stackDepthOverload has reached this
MaxOverload == 3

\* nested Debug calls (parseStackTrace -> Debug -> parseStackTrace ...) after
\* which the goroutine stack is taken to be exhausted
MaxNest == 3

----------------------------------------------------------------------------
(* Characters and Go slices.                                               *)

\* element i (0-based) of a Go slice or string
At(s, i) == s[i + 1]

\* Go's s[a:b], for 0 <= a <= b <= len(s)
Slice(s, a, b) == SubSeq(s, a + 1, b)

max(a, b) == IF a > b THEN a ELSE b

min(a, b) == IF a < b THEN a ELSE b

\* the regexp class \s
Whitespace == {" ", "\t", "\n", "\r", "\f"}

Digits == {"0", "1", "2", "3", "4", "5", "6", "7", "8", "9"}

Letters ==
    {"a", "b", "c", "d", "e", "f", "g", "h", "i", "j", "k", "l", "m",
     "n", "o", "p", "q", "r", "s", "t", "u", "v", "w", "x", "y", "z",
     "A", "B", "C", "D", "E", "F", "G", "H", "I", "J", "K", "L", "M",
     "N", "O", "P", "Q", "R", "S", "T", "U", "V", "W", "X", "Y", "Z"}

\* the regexp class [a-zA-Z0-9]
AlphaNum == Letters \cup Digits

\* the cutset of strings.Trim(line, " \n\t")
TrimCutset == {" ", "\n", "\t"}

\* strings.Trim(line, " \n\t") == ""
IsBlank(line) == \A k \in 1..Len(line) : line[k] \in TrimCutset

SetMin(S) == CHOOSE x \in S : \A y \in S : x <= y

SetMax(S) == CHOOSE x \in S : \A y \in S : x >= y

\* the least index k >= from with line[k] outside cls, or len(line) if none:
\* where a greedy repetition cls* that starts at from stops
SkipClass(line, from, cls) ==
    SetMin({k \in from..Len(line) : k = Len(line) \/ At(line, k) \notin cls})

----------------------------------------------------------------------------
(* utils: deleteBlankLinesFromRange.                                       *)

RECURSIVE cleanLeadingBlank(_, _, _)
\* the loop "clean leading blank lines": the value of *start after it
cleanLeadingBlank(lines, start, end) ==
    IF start <= end /\ IsBlank(At(lines, start))
    THEN cleanLeadingBlank(lines, start + 1, end)
    ELSE start

RECURSIVE cleanTrailingBlank(_, _, _)
\* the loop "clean trailing blank lines": the value of *end after it
cleanTrailingBlank(lines, start, end) ==
    IF end >= start /\ IsBlank(At(lines, end))
    THEN cleanTrailingBlank(lines, start, end - 1)
    ELSE end

\* deleteBlankLinesFromRange without its loop "clean trailing blank lines"
deleteBlankLinesLeadingOnly(lines, start, end) ==
    LET s0 == max(start, 0)
        e0 == min(end, Len(lines) - 1)
    IN  [start |-> cleanLeadingBlank(lines, s0, e0), end |-> e0]

\* deleteBlankLinesFromRange with a "(*start)++" ahead of its loop "clean
\* leading blank lines"
deleteBlankLinesPastStart(lines, start, end) ==
    LET s0 == max(start, 0)
        e0 == min(end, Len(lines) - 1)
        s1 == cleanLeadingBlank(lines, s0 + 1, e0)
        e1 == cleanTrailingBlank(lines, s1, e0)
    IN  [start |-> s1, end |-> e1]

\* deleteBlankLinesFromRange(lines, &start, &end): the values left in start, end
deleteBlankLinesFromRange(lines, start, end) ==
    LET s0 == max(start, 0)
        e0 == min(end, Len(lines) - 1)
        s1 == cleanLeadingBlank(lines, s0, e0)
        e1 == cleanTrailingBlank(lines, s1, e0)
    IN  [start |-> s1, end |-> e1]

----------------------------------------------------------------------------
(* The patterns of the source heuristics.                                  *)

\* regexpFuncLine.Match: ^func[\s][a-zA-Z0-9]+[(](.*)[)][\s]*{
regexpFuncLine(line) ==
    /\ Len(line) >= 5
    /\ Slice(line, 0, 4) = <<"f", "u", "n", "c">>
    /\ At(line, 4) \in Whitespace
    /\ \E k \in 6..(Len(line) - 1) :
         /\ \A j \in 5..(k - 1) : At(line, j) \in AlphaNum
         /\ At(line, k) = "("
         /\ \E p \in (k + 1)..(Len(line) - 1) :
              /\ At(line, p) = ")"
              /\ \E q \in (p + 1)..(Len(line) - 1) :
                   /\ At(line, q) = "{"
                   /\ \A r \in (p + 1)..(q - 1) : At(line, r) \in Whitespace

\* the literal prefix [\.]Debug[\(] of regexpParseDebugLineParseVarName
DebugCallToken == <<".", "D", "e", "b", "u", "g", "(">>

\* regexpParseDebugLineParseVarName.FindStringSubmatch: [\.]Debug[\(](.*)[/)]
\* the leftmost ".Debug(", then the greedy (.*) up to the last "/" or ")".
\* found is len(reMatches) >= 2 and name is reMatches[1]
regexpParseDebugLineParseVarName(line) ==
    LET n == Len(DebugCallToken)
        closers(p) == {q \in (p + n)..(Len(line) - 1) : At(line, q) \in {"/", ")"}}
        starts == {p \in 0..(Len(line) - n) :
                     /\ Slice(line, p, p + n) = DebugCallToken
                     /\ closers(p) # {}}
    IN  IF starts = {}
        THEN [found |-> FALSE, name |-> <<>>]
        ELSE LET p == SetMin(starts)
             IN  [found |-> TRUE, name |-> Slice(line, p + n, SetMax(closers(p)))]

RECURSIVE parensBalanced(_, _, _)
\* the parentheses of pattern text s from position k on close in order
parensBalanced(s, k, depth) ==
    IF k > Len(s) THEN depth = 0
    ELSE IF s[k] = "(" THEN parensBalanced(s, k + 1, depth + 1)
    ELSE IF s[k] = ")" THEN depth > 0 /\ parensBalanced(s, k + 1, depth - 1)
    ELSE parensBalanced(s, k + 1, depth)

\* regexp.MustCompile accepts the pattern built from varName (it panics on
\* an unopened or unclosed group). The argument text is pattern text: "."
\* is the wildcard, "(" and ")" group, every other character of the model's
\* source lines stands for itself.
regexpCompiles(varName) == parensBalanced(varName, 1, 0)

\* the class [a-zA-Z0-9\._] of regexpFindVarDefinition
DefinitionChars == AlphaNum \cup {".", "_"}

\* regexpFindVarDefinition(varName).FindStringSubmatchIndex(line):
\*   %s[\s\:]*={1}([\s]*[a-zA-Z0-9\._]+)
\* found is index != nil, start is index[0], end is index[1]
regexpFindVarDefinition(varName, line) ==
    LET atoms == SelectSeq(varName, LAMBDA c : c \notin {"(", ")"})
        n == Len(atoms)
        eqAt(s) == SkipClass(line, s + n, Whitespace \cup {":"})
        valAt(s) == SkipClass(line, eqAt(s) + 1, Whitespace)
        matchAt(s) ==
            /\ s + n <= Len(line)
            /\ \A k \in 0..(n - 1) :
                 At(atoms, k) = "." \/ At(atoms, k) = At(line, s + k)
            /\ eqAt(s) < Len(line)
            /\ At(line, eqAt(s)) = "="
            /\ valAt(s) < Len(line)
            /\ At(line, valAt(s)) \in DefinitionChars
        starts == {s \in 0..Len(line) : matchAt(s)}
    IN  IF starts = {}
        THEN [found |-> FALSE, start |-> 0, end |-> 0]
        ELSE LET s == SetMin(starts)
             IN  [found |-> TRUE, start |-> s,
                  end |-> SkipClass(line, valAt(s), DefinitionChars)]

----------------------------------------------------------------------------
(* findFuncLine and findFailingLine.  A result with panic = TRUE is an     *)
(* index out of range (or MustCompile's panic) inside the function.        *)

RECURSIVE findFuncLineLoop(_, _)
\* the loop of findFuncLine from index i downward
findFuncLineLoop(lines, i) ==
    IF i > 0
    THEN IF i >= Len(lines) THEN [panic |-> TRUE, line |-> -1]
         ELSE IF regexpFuncLine(At(lines, i)) THEN [panic |-> FALSE, line |-> i]
         ELSE findFuncLineLoop(lines, i - 1)
    ELSE [panic |-> FALSE, line |-> -1]

\* findFuncLine(lines, lineNumber)
findFuncLine(lines, lineNumber) == findFuncLineLoop(lines, lineNumber)

RECURSIVE walkToColumnEnd(_, _, _, _)
\* the bracket-counting loop of findFailingLine from column j: the column at
\* which it returns, or -1 when it runs off the line
walkToColumnEnd(line, j, openedBrackets, closedBrackets) ==
    IF j < Len(line)
    THEN LET o == openedBrackets + (IF At(line, j) = "(" THEN 1 ELSE 0)
             c == closedBrackets + (IF At(line, j) = ")" THEN 1 ELSE 0)
         IN  IF o = c THEN j ELSE walkToColumnEnd(line, j + 1, o, c)
    ELSE -1

\* what findFailingLine returns when no line is found
NoFailingLine ==
    [panic |-> FALSE, failingLineIndex |-> -1, columnStart |-> 0, columnEnd |-> 0]

\* what stands for a findFailingLine call that panicked
FailingLinePanic ==
    [panic |-> TRUE, failingLineIndex |-> -1, columnStart |-> 0, columnEnd |-> 0]

\* "// ..." at the very start of the line
IsCommentLine(line) == Len(line) >= 2 /\ Slice(line, 0, 2) = <<"/", "/">>

RECURSIVE findFailingLineLoop(_, _, _, _)
\* the search loop of findFailingLine from index i downward
findFailingLineLoop(lines, funcLine, varName, i) ==
    IF i >= funcLine /\ i > 0
    THEN IF i >= Len(lines) THEN FailingLinePanic
         ELSE IF IsBlank(At(lines, i)) \/ IsCommentLine(At(lines, i))
         THEN findFailingLineLoop(lines, funcLine, varName, i - 1)
         ELSE LET index == regexpFindVarDefinition(varName, At(lines, i))
                  j == walkToColumnEnd(At(lines, i), index.end, 0, 0)
              IN  IF ~index.found
                  THEN findFailingLineLoop(lines, funcLine, varName, i - 1)
                  ELSE [panic |-> FALSE,
                        failingLineIndex |-> i,
                        columnStart |-> index.start,
                        columnEnd |-> IF j # -1 THEN j ELSE Len(At(lines, i)) - 1]
    ELSE NoFailingLine

\* findFailingLine(lines, funcLine, debugLine)
findFailingLine(lines, funcLine, debugLine) ==
    IF debugLine - 1 < 0 \/ debugLine - 1 >= Len(lines) THEN FailingLinePanic
    ELSE LET reMatches == regexpParseDebugLineParseVarName(At(lines, debugLine - 1))
         IN  IF ~reMatches.found THEN NoFailingLine
             ELSE IF ~regexpCompiles(reMatches.name) THEN FailingLinePanic
             ELSE findFailingLineLoop(lines, funcLine, reMatches.name, debugLine)

----------------------------------------------------------------------------
(* What a logger hands to its PrintFunc: one item per Printf call.         *)
(*   kind      which Printf of the source the item comes from              *)
(*   n         the number the line shows (a 1-based line number, a frame   *)
(*             index), 0 where the line shows none                         *)
(*   hs, he    the highlighted columns of a source line, -1 for none; for  *)
(*             a frame line, hs is the indentation printed before it       *)

Item(kind, n, hs, he) == [kind |-> kind, n |-> n, hs |-> hs, he |-> he]

\* a result of a printing function: what it printed and whether it panicked
Printed(out, panic) == [out |-> out, panic |-> panic]

\* the items, then what a printing function did
After(items, printed) == Printed(items \o printed.out, printed.panic)

\* what afero.ReadFile gives: the file's text split into lines, or an error
Readable(lines) == [err |-> FALSE, lines |-> lines]

Unreadable == [err |-> TRUE, lines |-> <<>>]

RECURSIVE printSourceLoop(_, _, _)
\* the loop of PrintSource from index i on
printSourceLoop(lines, opts, i) ==
    IF i < opts.EndLine
    THEN IF i < 0 \/ i >= Len(lines) THEN Printed(<<>>, TRUE)
         ELSE IF i \notin DOMAIN opts.Highlighted \/ Len(opts.Highlighted[i]) # 2
         THEN LET rest == printSourceLoop(lines, opts, i + 1)
              IN  Printed(<<Item("line", i + 1, -1, -1)>> \o rest.out, rest.panic)
         ELSE LET hlStart == max(At(opts.Highlighted[i], 0), 0)
                  hlEnd == min(At(opts.Highlighted[i], 1), Len(lines) - 1)
                  n == Len(At(lines, i))
                  rest == printSourceLoop(lines, opts, i + 1)
              IN  \* lines[i][:hlStart], lines[i][hlStart:hlEnd+1], lines[i][hlEnd+1:]
                  IF hlStart > n \/ hlEnd + 1 > n \/ hlStart > hlEnd + 1
                  THEN Printed(<<>>, TRUE)
                  ELSE Printed(<<Item("line", i + 1, hlStart, hlEnd)>> \o rest.out,
                               rest.panic)
    ELSE Printed(<<>>, FALSE)

\* (*logger).PrintSource(lines, opts)
PrintSource(lines, opts) ==
    IF opts.FuncLine # -1 /\ opts.FuncLine < opts.StartLine
    THEN IF opts.FuncLine < 0 \/ opts.FuncLine >= Len(lines)
         THEN Printed(<<>>, TRUE)
         ELSE LET head == <<Item("funcLine", opts.FuncLine + 1, -1, -1)>>
                      \o (IF opts.FuncLine < opts.StartLine - 1
                          THEN <<Item("elision", 0, -1, -1)>> ELSE <<>>)
                  body == printSourceLoop(lines, opts, opts.StartLine)
              IN  Printed(head \o body.out, body.panic)
    ELSE printSourceLoop(lines, opts, opts.StartLine)

\* the window DebugSource computes before it looks for the function line:
\* minLine and maxLine after deleteBlankLinesFromRange
sourceRange(cfg, lines, debugLineNumber) ==
    deleteBlankLinesFromRange(lines,
                              debugLineNumber - cfg.LinesBefore,
                              debugLineNumber + cfg.LinesAfter)

\* debugSourcePrint with "minLine = funcLine" for the function line above
\* the range
debugSourcePrintFromFuncLine(lines, range, funcLine, failing, debugLineNumber) ==
    LET header == IF failing.failingLineIndex # -1
                  THEN Item("srcHeader", failing.failingLineIndex + 1, -1, -1)
                  ELSE Item("srcNotFound", debugLineNumber, -1, -1)
        opts == [FuncLine |-> funcLine,
                 Highlighted |-> [i \in {failing.failingLineIndex} |->
                                    <<failing.columnStart, failing.columnEnd>>],
                 StartLine |-> IF funcLine > range.start THEN funcLine
                               ELSE range.start,
                 EndLine |-> range.end]
    IN  IF failing.panic THEN Printed(<<>>, TRUE)
        ELSE [opts |-> opts, failing |-> failing, lines |-> lines,
              range |-> range]
                 @@ After(<<header>>, PrintSource(lines, opts))

\* DebugSource from its two Printf calls on: the header line, then PrintSource.
\* The result keeps what PrintSource was given (lines, opts), what
\* findFailingLine had returned (failing) and what minLine and maxLine were
\* after deleteBlankLinesFromRange (range)
debugSourcePrint(lines, range, funcLine, failing, debugLineNumber) ==
    LET header == IF failing.failingLineIndex # -1
                  THEN Item("srcHeader", failing.failingLineIndex + 1, -1, -1)
                  ELSE Item("srcNotFound", debugLineNumber, -1, -1)
        opts == [FuncLine |-> funcLine,
                 Highlighted |-> [i \in {failing.failingLineIndex} |->
                                    <<failing.columnStart, failing.columnEnd>>],
                 StartLine |-> IF funcLine > range.start THEN funcLine + 1
                               ELSE range.start,
                 EndLine |-> range.end]
    IN  IF failing.panic THEN Printed(<<>>, TRUE)
        ELSE [opts |-> opts, failing |-> failing, lines |-> lines,
              range |-> range]
                 @@ After(<<header>>, PrintSource(lines, opts))

\* DebugSource from findFuncLine on, funcLine being what findFuncLine gave
\* for lines; the result keeps both
debugSourceFind(lines, range, funcLine, debugLineNumber) ==
    [funcLine |-> funcLine, lines |-> lines] @@
        (IF funcLine.panic THEN Printed(<<>>, TRUE)
         ELSE debugSourcePrint(lines, range, funcLine.line,
                  findFailingLine(lines, funcLine.line, debugLineNumber),
                  debugLineNumber))

\* DebugSource from "lines = lines[:maxLine+1]" on, range being minLine and
\* maxLine after deleteBlankLinesFromRange
debugSourceTrim(allLines, range, debugLineNumber) ==
    IF range.end + 1 < 0 \/ range.end + 1 > Len(allLines)
    THEN Printed(<<>>, TRUE)
    ELSE debugSourceFind(Slice(allLines, 0, range.end + 1), range,
                         findFuncLine(Slice(allLines, 0, range.end + 1),
                                      debugLineNumber),
                         debugLineNumber)

\* DebugSource without the "return" that follows the message about the read
DebugSourceGoesOnUnread(cfg, read, debugLineNumber) ==
    IF read.err
    THEN After(<<Item("unreadable", 0, -1, -1)>>,
               debugSourceTrim(read.lines,
                               sourceRange(cfg, read.lines, debugLineNumber),
                               debugLineNumber))
    ELSE debugSourceTrim(read.lines,
                         sourceRange(cfg, read.lines, debugLineNumber),
                         debugLineNumber)

\* (*logger).DebugSource(filepath, debugLineNumber); read is what
\* afero.ReadFile gives for filepath
DebugSource(cfg, read, debugLineNumber) ==
    IF read.err THEN Printed(<<Item("unreadable", 0, -1, -1)>>, FALSE)
    ELSE debugSourceTrim(read.lines,
                         sourceRange(cfg, read.lines, debugLineNumber),
                         debugLineNumber)

RECURSIVE printStackLoop(_, _, _)
\* the loop of printStack from index i downward. The padding the loop builds
\* is not among the values given to Printf, so no frame line carries it.
printStackLoop(cfg, stLines, i) ==
    IF i >= 0
    THEN LET padding == IF ~cfg.DisableStackIndentation
                        THEN Len(stLines) - 1 - i ELSE 0
             printedPadding == 0
         IN  <<Item("frame", i, printedPadding, At(stLines, i).SourceLineRef)>>
                 \o printStackLoop(cfg, stLines, i - 1)
    ELSE <<>>

\* (*logger).printStack(stLines)
printStack(cfg, stLines) == printStackLoop(cfg, stLines, Len(stLines) - 1)

----------------------------------------------------------------------------
(* Configuration.                                                          *)

ModeDisabled == 1

ModeEnabled == 2

enabledModes == {ModeDisabled, ModeEnabled}

\* isIntInSlice(i, s): whether i is one of the values of s
isIntInSlice(i, s) == \E v \in s : v = i

NilFunc == "nil"

DefaultLoggerPrintFunc == "DefaultLoggerPrintFunc"

\* Doctor without its test of LinesAfter
DoctorKeepsLinesAfter(cfg) ==
    LET c1 == IF cfg.PrintFunc = NilFunc
              THEN [cfg EXCEPT !.PrintFunc = DefaultLoggerPrintFunc] ELSE cfg
        c2 == IF c1.LinesBefore < 0 THEN [c1 EXCEPT !.LinesBefore = 0] ELSE c1
    IN  c2

\* (*logger).Doctor(): the configuration it leaves
Doctor(cfg) ==
    LET c1 == IF cfg.PrintFunc = NilFunc
              THEN [cfg EXCEPT !.PrintFunc = DefaultLoggerPrintFunc] ELSE cfg
        c2 == IF c1.LinesBefore < 0 THEN [c1 EXCEPT !.LinesBefore = 0] ELSE c1
        c3 == IF c2.LinesAfter < 0 THEN [c2 EXCEPT !.LinesAfter = 0] ELSE c2
    IN  c3

----------------------------------------------------------------------------
(* The stack snapshot and its parser.  debug.Stack() gives a header line   *)
(* and two lines per entry, innermost entry first; an entry is kept as the *)
(* fields regexpParseStack finds in it, the numbers still as text.         *)

StackEntry(object, path, line, offset) ==
    [CallingObject |-> object, SourcePathRef |-> path, line |-> line,
     offset |-> offset]

\* the path of the package's own source files
ErrlogPath == "errlog"

\* the path of the source file of the calling program
AppPath == "app"

\* the entry of runtime/debug.Stack itself
debugStackEntry == StackEntry("debug.Stack", "runtime", <<"2", "4">>, <<"9", "d">>)

\* the entry of parseStackTrace, stopped at the given line of its file
parseStackTraceEntry(line) ==
    StackEntry("errlog.parseStackTrace", ErrlogPath, line, <<"1", "c">>)

\* the entry of (*logger).Debug, stopped at its call of parseStackTrace
loggerDebugEntry ==
    StackEntry("errlog.(*logger).Debug", ErrlogPath, <<"8", "7">>, <<"a", "5">>)

\* the entry of the package-level Debug, stopped at its call of
\* DefaultLogger.Debug
errlogDebugEntry == StackEntry("errlog.Debug", ErrlogPath, <<"8", "9">>, <<"3", "9">>)

\* a nil error
Nil == "nil"

DigitValue(c) == CHOOSE d \in 0..9 : At(<<"0", "1", "2", "3", "4", "5", "6", "7", "8", "9">>, d) = c

RECURSIVE DecimalValue(_)
DecimalValue(text) ==
    IF text = <<>> THEN 0
    ELSE 10 * DecimalValue(SubSeq(text, 1, Len(text) - 1)) + DigitValue(text[Len(text)])

\* strconv.Atoi on a text of decimal digits: it fails when the number does
\* not fit an int.  Every text of up to 18 digits fits and every text of 20
\* or more does not; the model has no text of 19.
Atoi(text) ==
    IF Len(text) <= 18
    THEN [err |-> Nil, value |-> DecimalValue(text)]
    ELSE [err |-> "strconv.Atoi: value out of range", value |-> 0]

HexDigitValue(c) ==
    CHOOSE d \in 0..15 :
        At(<<"0", "1", "2", "3", "4", "5", "6", "7", "8", "9",
             "a", "b", "c", "d", "e", "f">>, d) = c

RECURSIVE HexValue(_)
HexValue(text) ==
    IF text = <<>> THEN 0
    ELSE 16 * HexValue(SubSeq(text, 1, Len(text) - 1)) + HexDigitValue(text[Len(text)])

\* strconv.ParseInt(text, 16, 32) on a text of hexadecimal digits: it fails
\* when the number does not fit 32 bits signed
ParseInt(text) ==
    IF Len(text) <= 7 \/ (Len(text) = 8 /\ HexDigitValue(text[1]) <= 7)
    THEN [err |-> Nil, value |-> HexValue(text)]
    ELSE [err |-> "strconv.ParseInt: value out of range", value |-> 0]

----------------------------------------------------------------------------
(* The facade.  A logger is [config, stackDepthOverload]; ls maps the      *)
(* logger names to the loggers.  A call's result:                          *)
(*   ls       the loggers after it                                         *)
(*   outcome  "returned", "exited" (os.Exit), "panicked", "overflow"       *)
(*   ret      the value returned, when outcome = "returned"                *)
(*   out      the items printed, each with the logger that printed it      *)
(*   deltas   the deltaDepth of every parseStackTrace call, in call order  *)
(*   reads    the number of afero.ReadFile calls                           *)
(*   frames   (parseStackTrace only) the []StackTraceItem returned         *)

DefaultLoggerName == "DefaultLogger"

Result(ls, outcome, ret, out, deltas, reads) ==
    [ls |-> ls, outcome |-> outcome, ret |-> ret, out |-> out,
     deltas |-> deltas, reads |-> reads]

\* a result of parseStackTrace: the frames it returned, and what it did
Parsed(frames, r) ==
    [frames |-> frames, ls |-> r.ls, outcome |-> r.outcome, ret |-> FALSE,
     out |-> r.out, deltas |-> r.deltas, reads |-> r.reads]

\* a result of Debug: what it did, the configuration it worked with (seen)
\* and how many frames its parseStackTrace returned (-1: it did not parse)
Debugged(seen, parsed, r) ==
    [seen |-> seen, parsed |-> parsed, ls |-> r.ls, outcome |-> r.outcome,
     ret |-> r.ret, out |-> r.out, deltas |-> r.deltas, reads |-> r.reads]

\* r1 and then r2
Then(r1, r2) ==
    Result(r2.ls, r2.outcome, r2.ret, r1.out \o r2.out,
           r1.deltas \o r2.deltas, r1.reads + r2.reads)

\* the items as printed by logger id during its Debug(uErr)
By(id, uErr, items) ==
    [k \in 1..Len(items) |->
        [kind |-> items[k].kind, n |-> items[k].n, hs |-> items[k].hs,
         he |-> items[k].he, by |-> id, err |-> uErr]]

\* (*logger).Overload(amount)
Overload(ls, id, amount) ==
    [ls EXCEPT ![id].stackDepthOverload = @ + amount]

\* the lines of stackArr that parseStackTrace cuts off: 2*(2+deltaDepth)
cutLines(deltaDepth) == 2 * (2 + deltaDepth)

\* the entries regexpParseStack finds in stackArr[2*(2+deltaDepth):] joined:
\* the cut removes the header line and the first 2+deltaDepth entries but
\* for the second line of the last of them, which alone matches nothing
keptEntries(stack, deltaDepth) ==
    SubSeq(stack, 2 + deltaDepth + 1, Len(stack))

RECURSIVE Debug(_, _, _, _, _, _)
RECURSIVE parseLoop(_, _, _, _, _, _)

\* the package-level Debug(uErr), called with the stack `below` under it
PkgDebug(ls, files, uErr, below, nest) ==
    Debug(Overload(ls, DefaultLoggerName, 1), files, DefaultLoggerName, uErr,
          <<errlogDebugEntry>> \o below, nest)

\* the StackTraceItem of entry e; d1 and d2 are the results of Debug(err)
\* after Atoi and after ParseInt
stackTraceItem(e, d1, d2) ==
    [CallingObject |-> e.CallingObject,
     SourcePathRef |-> e.SourcePathRef,
     SourceLineRef |-> IF d1.ret THEN -1 ELSE Atoi(e.line).value,
     MysteryNumber |-> IF e.offset = <<>> THEN -25
                       ELSE IF d2.ret THEN -1 ELSE ParseInt(e.offset).value]

\* one round of the loop of parseStackTrace once entry i is parsed, rest
\* being what the rounds after it do
parseAppend(e, d1, d2, rest) ==
    Parsed(IF rest.outcome = "returned"
           THEN <<stackTraceItem(e, d1, d2)>> \o rest.frames ELSE <<>>,
           Then(Then(d1, d2), rest))

\* one round of the loop from the mysteryNumber part on, d2 being the result
\* of its Debug(err)
parseOffset(files, parsedRes, i, below, nest, d1, d2) ==
    IF d2.outcome # "returned" THEN Parsed(<<>>, Then(d1, d2))
    ELSE parseAppend(parsedRes[i], d1, d2,
                     parseLoop(d2.ls, files, parsedRes, i + 1, below, nest))

\* one round of the loop after "lineNum, err := strconv.Atoi(...)" and its
\* Debug(err), d1 being the result of that Debug
parseLine(files, parsedRes, i, below, nest, d1) ==
    IF d1.outcome # "returned" THEN Parsed(<<>>, d1)
    ELSE parseOffset(files, parsedRes, i, below, nest, d1,
             IF parsedRes[i].offset # <<>>
             THEN PkgDebug(d1.ls, files, ParseInt(parsedRes[i].offset).err,
                           <<parseStackTraceEntry(<<"6", "0">>)>> \o below,
                           nest + 1)
             ELSE Result(d1.ls, "returned", FALSE, <<>>, <<>>, 0))

\* the loop of parseStackTrace over parsedRes from entry i (1-based) on
parseLoop(ls, files, parsedRes, i, below, nest) ==
    IF i > Len(parsedRes)
    THEN Parsed(<<>>, Result(ls, "returned", FALSE, <<>>, <<>>, 0))
    ELSE parseLine(files, parsedRes, i, below, nest,
                   PkgDebug(ls, files, Atoi(parsedRes[i].line).err,
                            <<parseStackTraceEntry(<<"5", "2">>)>> \o below,
                            nest + 1))

\* parseStackTrace(deltaDepth), called with the stack `below` under it
parseStackTrace(ls, files, deltaDepth, below, nest) ==
    LET stack == <<debugStackEntry, parseStackTraceEntry(<<"4", "1">>)>> \o below
        lenStackArr == 2 * Len(stack) + 2
    IN  IF lenStackArr < cutLines(deltaDepth)
        THEN Parsed(<<>>, Result(ls, "returned", FALSE, <<>>, <<deltaDepth>>, 0))
        ELSE IF cutLines(deltaDepth) < 0
        THEN Parsed(<<>>, Result(ls, "panicked", FALSE, <<>>, <<deltaDepth>>, 0))
        ELSE [parseLoop(ls, files, keptEntries(stack, deltaDepth), 1, below, nest)
                EXCEPT !.deltas = <<deltaDepth>> \o @]

\* what Debug prints when the parsed stack is empty
emptyStackNotice ==
    <<Item("emptyStackError", 0, -1, -1), Item("emptyStackNotice", 0, -1, -1)>>

\* os.Exit(1) in a Debug call that has printed n items: it closes `out`
exitItem(n) == Item("exit", n, -1, -1)

\* debugFinish with the test of ExitOnDebugSuccess put before the stack trace
debugFinishExitsBeforeStack(id, uErr, cfg, st, source, stack) ==
    LET summary == IF cfg.PrintError THEN <<Item("summary", 0, -1, -1)>> ELSE <<>>
        reads == IF cfg.PrintSource THEN 1 ELSE 0
        early == summary \o source.out
        did(outcome, ret, out) ==
            Then(st, Result(st.ls, outcome, ret, By(id, uErr, out), <<>>, reads))
    IN  IF source.panic
        THEN did("panicked", FALSE, early)
        ELSE IF cfg.ExitOnDebugSuccess
        THEN did("exited", FALSE, early \o <<exitItem(Len(early))>>)
        ELSE [did("returned", TRUE, early \o stack)
                EXCEPT !.ls[id].stackDepthOverload = 0]

\* debugFinish printing the stack trace ahead of the source section
debugFinishStackFirst(id, uErr, cfg, st, source, stack) ==
    LET summary == IF cfg.PrintError THEN <<Item("summary", 0, -1, -1)>> ELSE <<>>
        reads == IF cfg.PrintSource THEN 1 ELSE 0
        all == summary \o stack \o source.out
        did(outcome, ret, out) ==
            Then(st, Result(st.ls, outcome, ret, By(id, uErr, out), <<>>, reads))
    IN  IF cfg.PrintFunc = NilFunc /\ all # <<>>
        THEN did("panicked", FALSE, <<>>)
        ELSE IF source.panic
        THEN did("panicked", FALSE, summary \o source.out)
        ELSE IF cfg.ExitOnDebugSuccess
        THEN did("exited", FALSE, all \o <<exitItem(Len(all))>>)
        ELSE [did("returned", TRUE, all) EXCEPT !.ls[id].stackDepthOverload = 0]

\* the end of Debug, once the sections are printed: `source` is what
\* DebugSource did and `stack` what "Stack trace:" and printStack printed
debugFinish(id, uErr, cfg, st, source, stack) ==
    LET summary == IF cfg.PrintError THEN <<Item("summary", 0, -1, -1)>> ELSE <<>>
        reads == IF cfg.PrintSource THEN 1 ELSE 0
        all == summary \o source.out \o stack
        did(outcome, ret, out) ==
            Then(st, Result(st.ls, outcome, ret, By(id, uErr, out), <<>>, reads))
    IN  IF cfg.PrintFunc = NilFunc /\ all # <<>>
        THEN did("panicked", FALSE, <<>>)
        ELSE IF source.panic
        THEN did("panicked", FALSE, summary \o source.out)
        ELSE IF cfg.ExitOnDebugSuccess
        THEN did("exited", FALSE, all \o <<exitItem(Len(all))>>)
        ELSE [did("returned", TRUE, all) EXCEPT !.ls[id].stackDepthOverload = 0]

\* debugReport without the test of len(stLines): stLines[0] is read
debugReportReadsFirstFrame(files, id, uErr, cfg, st) ==
    IF st.outcome # "returned" \/ Len(st.frames) < 1
    THEN Result(st.ls, IF st.outcome # "returned" THEN st.outcome ELSE "panicked",
                FALSE, st.out, st.deltas, st.reads)
    ELSE debugFinish(id, uErr, cfg, st,
             IF cfg.PrintSource
             THEN DebugSource(cfg, files[At(st.frames, 0).SourcePathRef],
                              At(st.frames, 0).SourceLineRef)
             ELSE Printed(<<>>, FALSE),
             IF cfg.PrintStack
             THEN <<Item("stackHeader", 0, -1, -1)>> \o printStack(cfg, st.frames)
             ELSE <<>>)

\* Debug from "if stLines == nil || len(stLines) < 1" on, st being what
\* parseStackTrace gave and cfg the logger's configuration
debugReport(files, id, uErr, cfg, st) ==
    IF st.outcome # "returned"
    THEN Result(st.ls, st.outcome, FALSE, st.out, st.deltas, st.reads)
    ELSE IF Len(st.frames) < 1
    THEN IF cfg.PrintFunc = NilFunc
         THEN Result(st.ls, "panicked", FALSE, st.out, st.deltas, st.reads)
         ELSE Result(st.ls, "returned", TRUE,
                     st.out \o By(id, uErr, emptyStackNotice),
                     st.deltas, st.reads)
    ELSE debugFinish(id, uErr, cfg, st,
             IF cfg.PrintSource
             THEN DebugSource(cfg, files[At(st.frames, 0).SourcePathRef],
                              At(st.frames, 0).SourceLineRef)
             ELSE Printed(<<>>, FALSE),
             IF cfg.PrintStack
             THEN <<Item("stackHeader", 0, -1, -1)>> \o printStack(cfg, st.frames)
             ELSE <<>>)

\* Debug from "stLines := parseStackTrace(...)" on, st being what it gave
debugParsed(files, id, uErr, st) ==
    Debugged(st.ls[id].config,
             IF st.outcome = "returned" THEN Len(st.frames) ELSE -1,
             debugReport(files, id, uErr, st.ls[id].config, st))

\* debugDoctored without "if uErr == nil { return false }"
debugDoctoredNoNilReturn(ls, files, id, uErr, below, nest) ==
    IF nest > MaxNest
    THEN Debugged(ls[id].config, -1, Result(ls, "overflow", FALSE, <<>>, <<>>, 0))
    ELSE debugParsed(files, id, uErr,
             parseStackTrace(ls, files, 1 + ls[id].stackDepthOverload,
                             <<loggerDebugEntry>> \o below, nest))

\* Debug after l.Doctor(), ls being the loggers as Doctor left them
debugDoctored(ls, files, id, uErr, below, nest) ==
    IF uErr = Nil
    THEN Debugged(ls[id].config, -1, Result(ls, "returned", FALSE, <<>>, <<>>, 0))
    ELSE IF nest > MaxNest
    THEN Debugged(ls[id].config, -1, Result(ls, "overflow", FALSE, <<>>, <<>>, 0))
    ELSE debugParsed(files, id, uErr,
             parseStackTrace(ls, files, 1 + ls[id].stackDepthOverload,
                             <<loggerDebugEntry>> \o below, nest))

\* Debug with "return true" in place of "return uErr != nil"
DebugDisabledReturnsTrue(ls, files, id, uErr, below, nest) ==
    IF ls[id].config.Mode = ModeDisabled
    THEN Debugged(ls[id].config, -1, Result(ls, "returned", TRUE, <<>>, <<>>, 0))
    ELSE debugDoctored([ls EXCEPT ![id].config = Doctor(@)],
                       files, id, uErr, below, nest)

\* Debug without the test of Mode
DebugIgnoresMode(ls, files, id, uErr, below, nest) ==
    debugDoctored([ls EXCEPT ![id].config = Doctor(@)],
                  files, id, uErr, below, nest)

\* (*logger).Debug(uErr) on logger id, called with the stack `below` under it
Debug(ls, files, id, uErr, below, nest) ==
    IF ls[id].config.Mode = ModeDisabled
    THEN Debugged(ls[id].config, -1,
                  Result(ls, "returned", uErr # Nil, <<>>, <<>>, 0))
    ELSE debugDoctored([ls EXCEPT ![id].config = Doctor(@)],
                       files, id, uErr, below, nest)

----------------------------------------------------------------------------
(* The calling program: its source file, its stacks, its configurations.   *)

LPackage == <<"/", "/", " ", "p">>

LFunc == <<"f", "u", "n", "c", " ", "f", "(", ")", " ", "{">>

LDefine == <<" ", "x", " ", ":", "=", " ", "g", "(", ")">>

LDebug == <<" ", "e", ".", "D", "e", "b", "u", "g", "(", "x", ")">>

LCall == <<" ", "h", "(", ")">>

LBlank == <<>>

LClose == <<"}">>

\* a file whose Debug call (line 4) is followed by a statement
FileCallThenCode == <<LPackage, LFunc, LDefine, LDebug, LCall, LClose, LBlank>>

\* a file whose Debug call (line 4) is followed by a blank line
FileCallThenBlank == <<LPackage, LFunc, LDefine, LDebug, LBlank, LClose, LBlank>>

AppFiles == {Readable(FileCallThenCode), Readable(FileCallThenBlank), Unreadable}

\* more lines of a Go file: a definition commented out, as gofmt indents
\* it; a definition whose value is followed by more text ...
LComment == <<" ", "/", "/", " ", "x", " ", "=", " ", "0">>

LDefinePlain == <<" ", "x", " ", ":", "=", " ", "a", " ", "+", " ", "b">>

\* ... a Debug call with a comment after it, and one whose argument is a call
LDebugComment == LDebug \o <<" ", "/", "/", " ", "c">>

LDebugCall == <<" ", "e", ".", "D", "e", "b", "u", "g", "(", "g", "(", ")", ")">>

\* the files DebugSource, PrintSource and findFailingLine are applied to
SourceFiles ==
    {FileCallThenCode,
     FileCallThenBlank,
     <<LPackage, LFunc, LDefine, LComment, LDebug, LCall, LClose>>,
     <<LPackage, LFunc, LDefinePlain, LDebug, LCall, LClose>>,
     <<LPackage, LFunc, LDefine, LDebugComment, LCall, LClose>>,
     <<LPackage, LFunc, LDefine, LDebugCall, LCall, LClose>>,
     <<LPackage, LFunc, LBlank, LDebug, LCall, LClose, LBlank, LBlank>>,
     <<LPackage, LFunc, LDebug, LDefine, LClose>>}

\* a line number that fits an int, and one that does not
LineOfCall == <<"4">>

LinePastEnd == <<"9">>

LineTooLong == [k \in 1..20 |-> "9"]

\* the frames of the calling program under a Debug call, innermost first
MainEntry == StackEntry("main.main", AppPath, <<"8">>, <<"2", "f">>)

CallerEntry(line) == StackEntry("main.f", AppPath, line, <<"1", "d">>)

UserStacks ==
    {<<CallerEntry(line)>> \o tail :
        line \in {LineOfCall, LinePastEnd, LineTooLong},
        tail \in {<<>>, <<MainEntry>>}}

\* the margins a caller writes in a Config
MarginInputs == (-1)..MaxMargin

\* the switches of a Config that Debug reads
Switches == {"PrintStack", "PrintSource", "PrintError", "ExitOnDebugSuccess"}

\* the Config values a program builds: every margin, with or without a
\* PrintFunc, the switches Debug reads all off or all on (single switches are
\* then written through Config())
ConfigInputs ==
    {[PrintFunc |-> printFunc,
      LinesBefore |-> before,
      LinesAfter |-> after,
      PrintStack |-> on,
      PrintSource |-> on,
      PrintError |-> on,
      ExitOnDebugSuccess |-> on,
      DisableStackIndentation |-> FALSE,
      Mode |-> 0] :
        printFunc \in {NilFunc, DefaultLoggerPrintFunc},
        before \in MarginInputs, after \in MarginInputs, on \in BOOLEAN}

\* the modes a program hands to SetMode: the two modes, the zero value
\* and a number that is no mode
ModeInputs == {0, ModeDisabled, ModeEnabled, ModeEnabled + 1}

\* the Configs a program that toggles the mode hands to SetConfig: the
\* defaults, with each switch as given
ModeConfigInputs ==
    {[cfg EXCEPT !.PrintFunc = DefaultLoggerPrintFunc,
                 !.PrintStack = stack] :
        cfg \in {c \in ConfigInputs : c.LinesBefore = 0 /\ c.LinesAfter = 0},
        stack \in BOOLEAN}

\* the logger a program makes with NewLogger
CustomLoggerName == "debug"

\* a failure handed to Debug
Failure == "failure"

\* the Debug calls of the program: a failure or nil, and the stack under the
\* call (a nil call stops before the stack is looked at: one stack does)
DebugInputs ==
    {<<Failure, stack>> : stack \in UserStacks}
        \cup {<<Nil, <<CallerEntry(LineOfCall), MainEntry>> >>}

----------------------------------------------------------------------------
(* The state machine.                                                      *)
(*   loggers  the loggers that exist, by name                              *)
(*   fsys     what afero.ReadFile gives for each path                      *)
(*   proc     "running", or how the process ended                          *)
(*   last     the last Debug call and what it did                          *)

\* defaults.go
DefaultLogger ==
    [config |-> [PrintFunc |-> DefaultLoggerPrintFunc,
                 LinesBefore |-> 4,
                 LinesAfter |-> 2,
                 PrintStack |-> FALSE,
                 PrintSource |-> TRUE,
                 PrintError |-> TRUE,
                 ExitOnDebugSuccess |-> FALSE,
                 DisableStackIndentation |-> FALSE,
                 Mode |-> 0],
     stackDepthOverload |-> 0]

\* the zero value Config{}
ZeroConfig ==
    [PrintFunc |-> NilFunc,
     LinesBefore |-> 0,
     LinesAfter |-> 0,
     PrintStack |-> FALSE,
     PrintSource |-> FALSE,
     PrintError |-> FALSE,
     ExitOnDebugSuccess |-> FALSE,
     DisableStackIndentation |-> FALSE,
     Mode |-> 0]

\* last, when the last operation is not one the model keeps a record of
NoCall ==
    [op |-> "none", id |-> "none", err |-> Nil, line |-> <<>>,
     given |-> ZeroConfig, over |-> 0, seen |-> ZeroConfig, parsed |-> -1, outcome |-> "none",
     ret |-> FALSE, out |-> <<>>, deltas |-> <<>>, reads |-> 0]

\* the goroutines of a program that calls the package-level Debug from two
\* goroutines at once
Goroutines == {"g1", "g2"}

\* a goroutine that has not called yet: pc is where it stands in its call,
\* reg the stackDepthOverload it loaded for "+=", deltaDepth what its Debug
\* handed to parseStackTrace (0: nothing yet), nested the Debug(err) calls
\* its parseStackTrace has still to make; mixed tells whether another
\* goroutine was inside a call while this one stood between the start of
\* its Overload and its read of stackDepthOverload
Idle == [pc |-> "idle", reg |-> 0, deltaDepth |-> 0, nested |-> 0, mixed |-> FALSE]

Init ==
    /\ loggers = (DefaultLoggerName :> DefaultLogger)
    /\ fsys \in {(AppPath :> f) @@ (ErrlogPath :> Unreadable) : f \in AppFiles}
    /\ proc = "running"
    /\ last = NoCall
    /\ goroutines = [g \in Goroutines |-> Idle]

\* the state after a Debug call on logger id that gave result r: line is
\* the line number of the calling frame as the stack snapshot has it, given
\* and over the logger's configuration and stackDepthOverload at the call
AfterCall(op, id, uErr, stack, r) ==
    /\ loggers' = r.ls
    /\ proc' = IF r.outcome = "returned" THEN "running" ELSE r.outcome
    /\ last' = [op |-> op, id |-> id, err |-> uErr, line |-> stack[1].line,
                given |-> loggers[id].config,
                over |-> loggers[id].stackDepthOverload,
                seen |-> r.seen, parsed |-> r.parsed,
                outcome |-> r.outcome, ret |-> r.ret, out |-> r.out,
                deltas |-> r.deltas, reads |-> r.reads]
    /\ UNCHANGED <<fsys, goroutines>>

\* no logger has taken more Overload than the model follows
OverloadBounded ==
    \A id \in DOMAIN loggers : loggers[id].stackDepthOverload < MaxOverload

\* NewLogger(cfg)
NewLogger(cfg) ==
    /\ proc = "running"
    /\ CustomLoggerName \notin DOMAIN loggers
    /\ loggers' = loggers @@
          (CustomLoggerName :> [config |-> Doctor(cfg), stackDepthOverload |-> 0])
    /\ last' = [NoCall EXCEPT !.op = "NewLogger", !.id = CustomLoggerName,
                              !.given = cfg]
    /\ UNCHANGED <<fsys, proc, goroutines>>

\* (*logger).SetConfig(cfg)
SetConfig(id, cfg) ==
    /\ proc = "running"
    /\ id \in DOMAIN loggers
    /\ loggers' = [loggers EXCEPT ![id].config = Doctor(cfg)]
    /\ last' = [NoCall EXCEPT !.op = "SetConfig", !.id = id, !.given = cfg]
    /\ UNCHANGED <<fsys, proc, goroutines>>

\* the program writes one field of the logger's Config through the pointer
\* that (*logger).Config() returns
ConfigWrite(id, field, value) ==
    /\ proc = "running"
    /\ id \in DOMAIN loggers
    /\ loggers' = [loggers EXCEPT ![id].config[field] = value]
    /\ last' = NoCall
    /\ UNCHANGED <<fsys, proc, goroutines>>

\* (*logger).SetMode(mode): the mode is taken when it is one of
\* enabledModes, and the call tells whether it was
SetMode(id, mode) ==
    /\ proc = "running"
    /\ id \in DOMAIN loggers
    /\ loggers' = IF isIntInSlice(mode, enabledModes)
                  THEN [loggers EXCEPT ![id].config.Mode = mode]
                  ELSE loggers
    /\ last' = [NoCall EXCEPT !.op = "SetMode", !.id = id,
                              !.ret = isIntInSlice(mode, enabledModes)]
    /\ UNCHANGED <<fsys, proc, goroutines>>

\* Disable that disables whatever it is given
DisableWhateverGiven(id, shouldDisable) ==
    /\ proc = "running"
    /\ id \in DOMAIN loggers
    /\ loggers' = [loggers EXCEPT ![id].config.Mode = ModeDisabled]
    /\ last' = NoCall
    /\ UNCHANGED <<fsys, proc, goroutines>>

\* (*logger).Disable(shouldDisable)
Disable(id, shouldDisable) ==
    /\ proc = "running"
    /\ id \in DOMAIN loggers
    /\ loggers' = [loggers EXCEPT ![id].config.Mode =
                      IF shouldDisable THEN ModeDisabled ELSE ModeEnabled]
    /\ last' = NoCall
    /\ UNCHANGED <<fsys, proc, goroutines>>

\* (*logger).Overload(amount), called by the program
CallOverload(id, amount) ==
    /\ proc = "running"
    /\ id \in DOMAIN loggers
    /\ OverloadBounded
    /\ loggers' = Overload(loggers, id, amount)
    /\ last' = NoCall
    /\ UNCHANGED <<fsys, proc, goroutines>>

\* (*logger).Debug(uErr), called by the program with `stack` under the call
CallDebug(id, uErr, stack) ==
    /\ proc = "running"
    /\ id \in DOMAIN loggers
    /\ OverloadBounded
    /\ AfterCall("Debug", id, uErr, stack, Debug(loggers, fsys, id, uErr, stack, 0))

\* the package-level Debug(uErr), called by the program
CallPkgDebug(uErr, stack) ==
    /\ proc = "running"
    /\ OverloadBounded
    /\ AfterCall("errlog.Debug", DefaultLoggerName, uErr, stack,
                 PkgDebug(loggers, fsys, uErr, stack, 0))

\* a program that uses the package-level logger only
Next ==
    \/ \E cfg \in ConfigInputs : SetConfig(DefaultLoggerName, cfg)
    \/ \E switch \in Switches, value \in BOOLEAN :
          ConfigWrite(DefaultLoggerName, switch, value)
    \/ \E b \in BOOLEAN : Disable(DefaultLoggerName, b)
    \/ CallOverload(DefaultLoggerName, 1)
    \/ \E in \in DebugInputs : CallDebug(DefaultLoggerName, in[1], in[2])
    \/ \E in \in DebugInputs : CallPkgDebug(in[1], in[2])

Spec == Init /\ [][Next]_vars

\* a program that only ever calls the package-level Debug, over Disabled
\* and Enabled periods and with the switches it likes
NextPkg ==
    \/ \E switch \in Switches, value \in BOOLEAN :
          ConfigWrite(DefaultLoggerName, switch, value)
    \/ \E b \in BOOLEAN : Disable(DefaultLoggerName, b)
    \/ \E in \in DebugInputs : CallPkgDebug(in[1], in[2])

SpecPkg == Init /\ [][NextPkg]_vars

\* a program that makes its own logger and uses that one only; it may leave
\* any value in the Config it keeps a pointer to
NextOwn ==
    \/ \E cfg \in ConfigInputs : NewLogger(cfg)
    \/ \E cfg \in ConfigInputs : SetConfig(CustomLoggerName, cfg)
    \/ \E field \in {"LinesBefore", "LinesAfter"}, value \in MarginInputs :
          ConfigWrite(CustomLoggerName, field, value)
    \/ ConfigWrite(CustomLoggerName, "PrintFunc", NilFunc)
    \/ \E b \in BOOLEAN : Disable(CustomLoggerName, b)
    \/ \E in \in DebugInputs : CallDebug(CustomLoggerName, in[1], in[2])

SpecOwn == Init /\ [][NextOwn]_vars

\* a program that toggles the mode of the package-level logger, replaces
\* its configuration and debugs failures with it
NextMode ==
    \/ \E b \in BOOLEAN : Disable(DefaultLoggerName, b)
    \/ \E mode \in ModeInputs : SetMode(DefaultLoggerName, mode)
    \/ \E cfg \in ModeConfigInputs : SetConfig(DefaultLoggerName, cfg)
    \/ CallOverload(DefaultLoggerName, 1)
    \/ \E in \in DebugInputs : CallDebug(DefaultLoggerName, in[1], in[2])
    \/ \E in \in DebugInputs : CallPkgDebug(in[1], in[2])

SpecMode == Init /\ [][NextMode]_vars

----------------------------------------------------------------------------
(* The package-level Debug called from two goroutines with no lock: every  *)
(* access to DefaultLogger.stackDepthOverload is a step of its own.        *)

\* the stack under the package-level Debug in each goroutine
GoStack == <<errlogDebugEntry, CallerEntry(LineOfCall), MainEntry>>

\* where a goroutine stands after it began Overload(1) and before its Debug
\* has read stackDepthOverload
BeforeRead == {"Overload", "Debug"}

\* the goroutines after g went to `new`, with `mixed` brought up to date
Stepped(g, new) ==
    LET after == [goroutines EXCEPT ![g] = new]
    IN  [h \in Goroutines |->
            [after[h] EXCEPT !.mixed =
                \/ @
                \/ /\ after[h].pc \in BeforeRead
                   /\ \E k \in Goroutines \ {h} : after[k].pc \notin {"idle", "done"}]]

\* how many times the parseStackTrace that gave st called Debug(err), each
\* call adding 1 to DefaultLogger.stackDepthOverload
nestedDebugCalls(ls, st) ==
    st.ls[DefaultLoggerName].stackDepthOverload
        - ls[DefaultLoggerName].stackDepthOverload

\* the package-level Debug, DefaultLogger.Overload(1): "+=" loads the field
GoOverloadLoad(g) ==
    /\ proc = "running"
    /\ goroutines[g].pc = "idle"
    /\ goroutines' = Stepped(g, [goroutines[g] EXCEPT
            !.pc = "Overload",
            !.reg = loggers[DefaultLoggerName].stackDepthOverload])
    /\ UNCHANGED <<loggers, fsys, proc, last>>

\* ... and stores what it loaded plus 1
GoOverloadStore(g) ==
    /\ proc = "running"
    /\ goroutines[g].pc = "Overload"
    /\ loggers' = [loggers EXCEPT
            ![DefaultLoggerName].stackDepthOverload = goroutines[g].reg + 1]
    /\ goroutines' = Stepped(g, [goroutines[g] EXCEPT !.pc = "Debug"])
    /\ UNCHANGED <<fsys, proc, last>>

\* DefaultLogger.Debug(uErr) on a failure, up to the call of
\* parseStackTrace(1 + l.stackDepthOverload), which reads the field
GoDebugParse(g) ==
    /\ proc = "running"
    /\ goroutines[g].pc = "Debug"
    /\ IF loggers[DefaultLoggerName].config.Mode = ModeDisabled
       THEN /\ goroutines' = Stepped(g, [goroutines[g] EXCEPT !.pc = "done"])
            /\ UNCHANGED loggers
       ELSE /\ loggers' = [loggers EXCEPT ![DefaultLoggerName].config = Doctor(@)]
            /\ goroutines' = Stepped(g, [goroutines[g] EXCEPT
                    !.pc = "parseStackTrace",
                    !.deltaDepth = 1 + loggers[DefaultLoggerName].stackDepthOverload,
                    !.nested = nestedDebugCalls(loggers,
                        parseStackTrace(loggers, fsys,
                            1 + loggers[DefaultLoggerName].stackDepthOverload,
                            <<loggerDebugEntry>> \o GoStack, 0))])
    /\ UNCHANGED <<fsys, proc, last>>

\* a Debug(err) of parseStackTrace, on no failure: its Overload(1) loads
GoNestedLoad(g) ==
    /\ proc = "running"
    /\ goroutines[g].pc = "parseStackTrace"
    /\ goroutines[g].nested > 0
    /\ goroutines' = Stepped(g, [goroutines[g] EXCEPT
            !.pc = "nestedOverload",
            !.reg = loggers[DefaultLoggerName].stackDepthOverload])
    /\ UNCHANGED <<loggers, fsys, proc, last>>

\* ... and stores, and the Debug(err) returns false
GoNestedStore(g) ==
    /\ proc = "running"
    /\ goroutines[g].pc = "nestedOverload"
    /\ loggers' = [loggers EXCEPT
            ![DefaultLoggerName].stackDepthOverload = goroutines[g].reg + 1]
    /\ goroutines' = Stepped(g, [goroutines[g] EXCEPT
            !.pc = "parseStackTrace", !.nested = @ - 1])
    /\ UNCHANGED <<fsys, proc, last>>

\* GoDebugFinish that leaves stackDepthOverload as it is
goFinishedKeepsOverload(g, r) ==
    /\ UNCHANGED loggers
    /\ proc' = IF r.outcome = "returned" THEN "running" ELSE r.outcome
    /\ last' = [NoCall EXCEPT !.op = "errlog.Debug", !.id = DefaultLoggerName,
                              !.err = Failure,
                              !.given = loggers[DefaultLoggerName].config,
                              !.over = goroutines[g].deltaDepth - 1,
                              !.seen = r.seen, !.parsed = r.parsed,
                              !.outcome = r.outcome, !.ret = r.ret,
                              !.out = r.out, !.deltas = r.deltas,
                              !.reads = r.reads]
    /\ goroutines' = Stepped(g, [goroutines[g] EXCEPT !.pc = "done"])
    /\ UNCHANGED fsys

\* the state after the rest of Debug gave r: the full path has stored 0 in
\* stackDepthOverload, the other paths have not written it
goFinished(g, r) ==
    /\ loggers' = IF r.outcome = "returned" /\ r.parsed >= 1
                  THEN [loggers EXCEPT ![DefaultLoggerName].stackDepthOverload = 0]
                  ELSE loggers
    /\ proc' = IF r.outcome = "returned" THEN "running" ELSE r.outcome
    /\ last' = [NoCall EXCEPT !.op = "errlog.Debug", !.id = DefaultLoggerName,
                              !.err = Failure,
                              !.given = loggers[DefaultLoggerName].config,
                              !.over = goroutines[g].deltaDepth - 1,
                              !.seen = r.seen, !.parsed = r.parsed,
                              !.outcome = r.outcome, !.ret = r.ret,
                              !.out = r.out, !.deltas = r.deltas,
                              !.reads = r.reads]
    /\ goroutines' = Stepped(g, [goroutines[g] EXCEPT !.pc = "done"])
    /\ UNCHANGED fsys

\* the rest of Debug once parseStackTrace has returned: the sections are
\* printed and, on the full path, l.stackDepthOverload = 0
GoDebugFinish(g) ==
    /\ proc = "running"
    /\ goroutines[g].pc = "parseStackTrace"
    /\ goroutines[g].nested = 0
    /\ goFinished(g, debugParsed(fsys, DefaultLoggerName, Failure,
            parseStackTrace(loggers, fsys, goroutines[g].deltaDepth,
                            <<loggerDebugEntry>> \o GoStack, 0)))

NextGo ==
    \E g \in Goroutines :
        \/ GoOverloadLoad(g)
        \/ GoOverloadStore(g)
        \/ GoDebugParse(g)
        \/ GoNestedLoad(g)
        \/ GoNestedStore(g)
        \/ GoDebugFinish(g)

SpecGo == Init /\ [][NextGo]_vars

----------------------------------------------------------------------------
(* DebugSource, PrintSource and findFailingLine applied, one call per      *)
(* step, to the lines of a source file.                                    *)

\* the lines of the program's source file
SourceLines == fsys[AppPath].lines

\* the margins the Doctor leaves in a Config
SourceMargins == 0..(MaxMargin + 1) \cup {DefaultLogger.config.LinesBefore}

\* what findFailingLine gives for the calls of the file that it returns from
FailingLines ==
    {findFailingLine(SourceLines, -1, debugLine) :
        debugLine \in 1..(Len(SourceLines) - 1)}

\* the PrintSourceOptions of a window of the file: a function line or none,
\* a highlight as findFailingLine gives it
SourceOptions ==
    {[FuncLine |-> funcLine,
      Highlighted |-> [i \in {failing.failingLineIndex} |->
                         <<failing.columnStart, failing.columnEnd>>],
      StartLine |-> startLine,
      EndLine |-> endLine] :
        funcLine \in {-1, 1},
        failing \in {f \in FailingLines : ~f.panic},
        startLine \in 0..(Len(SourceLines) - 1),
        endLine \in 0..(Len(SourceLines) - 1)}

InitSource ==
    /\ loggers = (DefaultLoggerName :> DefaultLogger)
    /\ fsys \in {(AppPath :> Readable(f)) @@ (ErrlogPath :> Unreadable) :
                    f \in SourceFiles}
    /\ proc = "running"
    /\ last = NoCall
    /\ goroutines = [g \in Goroutines |-> Idle]

\* the state after function op, called with args, did r
AfterSourceCall(op, args, r) ==
    /\ proc' = IF r.panic THEN "panicked" ELSE "running"
    /\ last' = [op |-> op, args |-> args, r |-> r]
    /\ UNCHANGED <<loggers, fsys, goroutines>>

\* (*logger).DebugSource on the file, for a frame at line debugLineNumber,
\* with margins as the Doctor leaves them
CallDebugSource(before, after, debugLineNumber) ==
    /\ proc = "running"
    /\ AfterSourceCall("DebugSource",
           [LinesBefore |-> before, LinesAfter |-> after,
            debugLineNumber |-> debugLineNumber],
           DebugSource([DefaultLogger.config EXCEPT !.LinesBefore = before,
                                                    !.LinesAfter = after],
                       fsys[AppPath], debugLineNumber))

\* (*logger).PrintSource(lines, opts) on the lines of the file
CallPrintSource(opts) ==
    /\ proc = "running"
    /\ opts.StartLine <= opts.EndLine
    /\ AfterSourceCall("PrintSource", opts, PrintSource(SourceLines, opts))

\* findFailingLine(lines, funcLine, debugLine) on the lines of the file
CallFindFailingLine(funcLine, debugLine) ==
    /\ proc = "running"
    /\ AfterSourceCall("findFailingLine",
           [funcLine |-> funcLine, debugLine |-> debugLine],
           findFailingLine(SourceLines, funcLine, debugLine))

\* deleteBlankLinesFromRange called again with the start and end that a
\* first call left (once): both calls return, having read lines within
\* the slice only
deletedTwice(lines, once) ==
    [panic |-> FALSE, once |-> once,
     twice |-> deleteBlankLinesFromRange(lines, once.start, once.end)]

\* deleteBlankLinesFromRange(lines, &start, &end) on the lines of the
\* file, twice over
CallDeleteBlankLines(start, end) ==
    /\ proc = "running"
    /\ AfterSourceCall("deleteBlankLinesFromRange",
           [start |-> start, end |-> end],
           deletedTwice(SourceLines,
                        deleteBlankLinesFromRange(SourceLines, start, end)))

NextSource ==
    \/ \E before \in SourceMargins, after \in SourceMargins,
          debugLineNumber \in 1..Len(SourceLines) :
            CallDebugSource(before, after, debugLineNumber)
    \/ \E opts \in SourceOptions : CallPrintSource(opts)
    \/ \E debugLine \in 1..(Len(SourceLines) - 1) :
          \E funcLine \in (-1)..(debugLine - 1) :
            CallFindFailingLine(funcLine, debugLine)
    \/ \E start \in (-1)..Len(SourceLines), end \in (-1)..Len(SourceLines) :
          CallDeleteBlankLines(start, end)

SpecSource == InitSource /\ [][NextSource]_vars

----------------------------------------------------------------------------
(* parseStackTrace applied, one call per step, to a stack snapshot.        *)

\* the frames under a parseStackTrace call, innermost first: Debug, its
\* caller and main, or the last ones of them
ParseStacks ==
    {SubSeq(<<loggerDebugEntry, CallerEntry(line), MainEntry>>, from, 3) :
        line \in {LineOfCall, LineTooLong}, from \in 1..4}

\* the state after parseStackTrace(deltaDepth), called with the stack
\* `below` under it, did r
AfterParse(deltaDepth, below, r) ==
    /\ loggers' = r.ls
    /\ proc' = IF r.outcome = "returned" THEN "running" ELSE r.outcome
    /\ last' = [op |-> "parseStackTrace",
                args |-> [deltaDepth |-> deltaDepth, below |-> below],
                r |-> r]
    /\ UNCHANGED <<fsys, goroutines>>

\* parseStackTrace(deltaDepth) with the stack `below` under it
CallParseStackTrace(deltaDepth, below) ==
    /\ proc = "running"
    /\ OverloadBounded
    /\ AfterParse(deltaDepth, below,
                  parseStackTrace(loggers, fsys, deltaDepth, below, 0))

\* a program that calls parseStackTrace, after Overload calls or none
NextParse ==
    \/ CallOverload(DefaultLoggerName, 1)
    \/ \E deltaDepth \in 0..(MaxOverload + 1), below \in ParseStacks :
          CallParseStackTrace(deltaDepth, below)

SpecParse == Init /\ [][NextParse]_vars

----------------------------------------------------------------------------
(* Properties.  They read `last`, the record of the last Debug call the    *)
(* program made: the logger called (id), the failure handed in (err), the  *)
(* logger's configuration and stackDepthOverload at the call (given, over) *)
(* and what the call did.                                                  *)

\* the last step was a Debug call of the program
DebugCalled == last.op \in {"Debug", "errlog.Debug"}

\* ... made while the logger was not Disabled
EnabledCall == DebugCalled /\ last.given.Mode # ModeDisabled

\* ... made while the logger was Disabled
DisabledCall == DebugCalled /\ last.given.Mode = ModeDisabled

\* the kinds of the items in a sequence of items
Kinds(items) == {items[k].kind : k \in 1..Len(items)}

\* the call did nothing that shows: no output, no stack parsed, no file
\* read, the process still running
Silent ==
    /\ last.outcome = "returned"
    /\ last.out = <<>>
    /\ last.deltas = <<>>
    /\ last.reads = 0
    /\ proc = "running"

\* C1: whenever Debug(err) returns, in either mode and under any
\* configuration, it returns true exactly when err is non-nil
C1_ReturnsWhetherFailure ==
    (DebugCalled /\ last.outcome = "returned") => (last.ret <=> last.err # Nil)

\* a Debug call of a non-nil failure that returned true on the
\* unreadable-source path
C1_Witness ==
    /\ EnabledCall
    /\ last.outcome = "returned"
    /\ last.err # Nil
    /\ last.ret
    /\ "unreadable" \in Kinds(last.out)

\* C2: after any Debug call on a logger has returned, that logger's
\* stackDepthOverload is 0
C2_OverloadResetOnReturn ==
    (DebugCalled /\ last.outcome = "returned")
        => loggers[last.id].stackDepthOverload = 0

\* C3: in a program that only calls the package-level Debug, every call
\* that reaches the stack parser passes deltaDepth = 1 + 1
C3_WrapperDepthIsTwo ==
    (last.op = "errlog.Debug" /\ last.deltas # <<>>) => last.deltas[1] = 1 + 1

\* C4: in Disabled mode Debug(non-nil failure) returns true, prints nothing,
\* parses no stack, reads no file and does not end the process, even with
\* ExitOnDebugSuccess set
C4_DisabledIsSilent ==
    (DisabledCall /\ last.err # Nil) => (Silent /\ last.ret)

\* a Disabled Debug call of a non-nil failure with ExitOnDebugSuccess set
C4_Witness ==
    /\ DisabledCall
    /\ last.err # Nil
    /\ last.given.ExitOnDebugSuccess
    /\ last.given.PrintSource
    /\ last.ret

\* C5: in Enabled mode Debug(nil) returns false, prints nothing, parses no
\* stack, reads no file and does not end the process, even with
\* ExitOnDebugSuccess set
C5_NilIsSilent ==
    (EnabledCall /\ last.err = Nil) => (Silent /\ ~last.ret)

\* an Enabled Debug call of a nil failure with ExitOnDebugSuccess set
C5_Witness ==
    /\ EnabledCall
    /\ last.err = Nil
    /\ last.given.ExitOnDebugSuccess
    /\ last.given.PrintSource
    /\ ~last.ret

\* what the call itself printed: the Debug calls parseStackTrace makes print
\* under another failure
OwnOut ==
    SelectSeq(last.out,
              LAMBDA it : it.err = last.err /\ it.by = last.id /\ it.kind # "exit")

\* the kinds of the items DebugSource prints once the file is read
SourceKinds == {"srcHeader", "srcNotFound", "funcLine", "elision", "line"}

\* items holds "Stack trace:" followed to its end by one line per frame,
\* outermost frame first, down to frame 0
StackPrinted(items) ==
    \E h \in 1..(Len(items) - 1) :
        /\ items[h].kind = "stackHeader"
        /\ \A k \in (h + 1)..Len(items) :
             items[k].kind = "frame" /\ items[k].n = Len(items) - k

\* the call ended in one of the two ways a finished report ends
ReturnedTrueOrExited ==
    \/ last.outcome = "returned" /\ last.ret /\ proc = "running"
    \/ last.outcome = "exited" /\ last.seen.ExitOnDebugSuccess /\ proc = "exited"

\* an Enabled Debug call of a non-nil failure with PrintSource set, a
\* readable source file and a stack whose numbers all parse
ReadableSourceCall ==
    /\ EnabledCall
    /\ last.err # Nil
    /\ last.seen.PrintSource
    /\ last.seen.LinesBefore >= 0
    /\ last.seen.LinesAfter >= 0
    /\ ~fsys[AppPath].err
    /\ Len(last.deltas) = 1

\* C6: in Enabled mode with PrintSource set, a readable file and
\* non-negative margins, Debug(non-nil failure) runs to completion and
\* returns true, whatever the line number of the innermost frame; the
\* process stops only through ExitOnDebugSuccess
C6_SourceNeverAborts == ReadableSourceCall => ReturnedTrueOrExited

\* the items the Debug call that ended the process printed: the n items
\* before its exit item, which is the last of out
ExitingCallOut ==
    SubSeq(last.out, Len(last.out) - last.out[Len(last.out)].n, Len(last.out) - 1)

\* C7: the process is ended (ExitOnDebugSuccess) only in a Debug call of a
\* non-nil failure, and only after that call has printed every section its
\* configuration asks for: the summary, the source section, the stack trace
C7_ExitAfterAllSections ==
    proc = "exited" =>
        /\ last.out # <<>>
        /\ \A k \in 1..(Len(last.out) - 1) : last.out[k].kind # "exit"
        /\ LET e == last.out[Len(last.out)]
               cfg == loggers[e.by].config
               own == ExitingCallOut
           IN  /\ e.kind = "exit"
               /\ e.err # Nil
               /\ cfg.ExitOnDebugSuccess
               /\ \A k \in 1..Len(own) : own[k].by = e.by /\ own[k].err = e.err
               /\ cfg.PrintError => (own # <<>> /\ own[1].kind = "summary")
               /\ cfg.PrintSource =>
                    Kinds(own) \cap {"unreadable", "srcHeader", "srcNotFound"} # {}
               /\ cfg.PrintStack => StackPrinted(own)

\* the process ended in a call that was asked for all three sections
C7_Witness ==
    /\ proc = "exited"
    /\ last.seen.PrintError
    /\ last.seen.PrintSource
    /\ last.seen.PrintStack
    /\ last.parsed = 2
    /\ "line" \in Kinds(last.out)

\* an Enabled Debug call of a non-nil failure that parsed a stack and, with
\* PrintSource set, could not read the source file
UnreadableSourceCall ==
    /\ EnabledCall
    /\ last.err # Nil
    /\ last.parsed >= 1
    /\ last.seen.PrintSource
    /\ fsys[AppPath].err

\* what DebugSource does about a file it cannot read: one message, no source
\* line, and the stack trace follows when PrintStack is set
UnreadableSourceReport ==
    /\ Len(SelectSeq(OwnOut, LAMBDA it : it.kind = "unreadable")) = 1
    /\ Kinds(OwnOut) \cap SourceKinds = {}
    /\ last.reads >= 1
    /\ last.seen.PrintStack => StackPrinted(OwnOut)

\* C8 as stated: when PrintSource is set and the file cannot be read,
\* DebugSource prints one message and no source line, the stack trace is
\* still printed when PrintStack is set, and the call returns true
C8_UnreadableSourceReturnsTrue ==
    UnreadableSourceCall
        => (UnreadableSourceReport /\ last.outcome = "returned" /\ last.ret)

\* C8 amended: ... and the call returns true unless ExitOnDebugSuccess is
\* set, in which case the process is ended after the stack trace
C8_UnreadableSourceDegrades ==
    UnreadableSourceCall
        => /\ UnreadableSourceReport
           /\ IF last.seen.ExitOnDebugSuccess
              THEN last.outcome = "exited" /\ proc = "exited"
              ELSE last.outcome = "returned" /\ last.ret /\ proc = "running"

\* the source file could not be read, the stack trace was asked for, and
\* the call returned
C8_Witness ==
    /\ UnreadableSourceCall
    /\ last.seen.PrintStack
    /\ last.outcome = "returned"
    /\ "unreadable" \in Kinds(OwnOut)
    /\ "frame" \in Kinds(OwnOut)

\* C9: when parseStackTrace gives no frame, Debug(non-nil failure) prints
\* the two lines of its degraded message and nothing else, reads no source
\* file, does not fail on stLines[0] and returns true
C9_EmptyStackDegrades ==
    (EnabledCall /\ last.err # Nil /\ last.parsed = 0)
        => /\ last.outcome = "returned"
           /\ last.ret
           /\ proc = "running"
           /\ Len(last.out) = 2
           /\ last.out[1].kind = "emptyStackError"
           /\ last.out[2].kind = "emptyStackNotice"
           /\ \A k \in 1..2 : last.out[k].by = last.id /\ last.out[k].err = last.err
           /\ last.reads = 0

\* a Debug call whose Overload made parseStackTrace cut every frame, under
\* a configuration that asks for every section and for the exit
C9_Witness ==
    /\ EnabledCall
    /\ last.err # Nil
    /\ last.parsed = 0
    /\ last.over > 0
    /\ last.seen.PrintSource
    /\ last.seen.PrintStack
    /\ last.seen.ExitOnDebugSuccess
    /\ last.ret

\* the configuration fields Doctor has no business with
OtherFields ==
    {"PrintStack", "PrintSource", "PrintError", "ExitOnDebugSuccess",
     "DisableStackIndentation", "Mode"}

\* cfg is `given` with a negative margin replaced by 0 and a missing
\* PrintFunc by the default one, and nothing else changed
Repaired(given, cfg) ==
    /\ cfg.LinesBefore >= 0
    /\ cfg.LinesAfter >= 0
    /\ cfg.PrintFunc # NilFunc
    /\ cfg.LinesBefore = (IF given.LinesBefore < 0 THEN 0 ELSE given.LinesBefore)
    /\ cfg.LinesAfter = (IF given.LinesAfter < 0 THEN 0 ELSE given.LinesAfter)
    /\ cfg.PrintFunc = (IF given.PrintFunc = NilFunc THEN DefaultLoggerPrintFunc
                        ELSE given.PrintFunc)
    /\ \A f \in OtherFields : cfg[f] = given[f]

\* C10: after NewLogger(cfg) and SetConfig(cfg) the logger's configuration,
\* and in an Enabled Debug call the configuration the call works with, is
\* the given one with negative margins replaced by 0 and a missing PrintFunc
\* by the default, nothing else changed; no Config is refused
C10_ConfigRepaired ==
    /\ last.op \in {"NewLogger", "SetConfig"}
          => Repaired(last.given, loggers[last.id].config)
    /\ EnabledCall => Repaired(last.given, last.seen)
    /\ (proc = "running" /\ CustomLoggerName \in DOMAIN loggers)
          => \A cfg \in ConfigInputs : ENABLED SetConfig(CustomLoggerName, cfg)
    /\ (proc = "running" /\ CustomLoggerName \notin DOMAIN loggers)
          => \A cfg \in ConfigInputs : ENABLED NewLogger(cfg)

\* an Enabled Debug call on a logger whose Config had been left with
\* negative margins and no PrintFunc
C10_Witness ==
    /\ EnabledCall
    /\ last.id = CustomLoggerName
    /\ last.err # Nil
    /\ last.given.LinesBefore < 0
    /\ last.given.LinesAfter < 0
    /\ last.given.PrintFunc = NilFunc
    /\ Repaired(last.given, last.seen)
    /\ last.out # <<>>

\* the place of a kind of item in the order of the sections of one call:
\* the summary, the header of the source, its lines, the header of the
\* stack, its frames, and the exit that follows them all
SectionRank(kind) ==
    CASE kind = "summary" -> 1
      [] kind \in {"srcHeader", "srcNotFound", "unreadable"} -> 2
      [] kind \in {"funcLine", "elision", "line"} -> 3
      [] kind = "stackHeader" -> 4
      [] kind = "frame" -> 5
      [] OTHER -> 0

\* C11: within one Debug call made on a failure while the logger is not
\* Disabled, the printer receives the summary, then the header of the
\* source, then the source lines, then "Stack trace:", then the frames:
\* no item of a section comes before an item of an earlier section, and
\* each of the three single lines comes at most once
C11_SectionsInOrder ==
    (EnabledCall /\ last.err # Nil /\ last.parsed >= 1) =>
        /\ \A j, k \in 1..Len(OwnOut) :
              j < k => SectionRank(OwnOut[j].kind) <= SectionRank(OwnOut[k].kind)
        /\ \A j, k \in 1..Len(OwnOut) :
              (j # k /\ SectionRank(OwnOut[j].kind) \in {1, 2, 4})
                  => OwnOut[j].kind # OwnOut[k].kind
        /\ \A k \in 1..Len(OwnOut) : SectionRank(OwnOut[k].kind) >= 1

\* a call that printed all five sections
C11_Witness ==
    /\ EnabledCall /\ last.err # Nil /\ last.parsed >= 1
    /\ last.outcome = "returned"
    /\ {"summary", "srcHeader", "line", "stackHeader", "frame"} \subseteq Kinds(OwnOut)

\* the kinds of item that carry the message of the failure: the summary
\* and the "Error: %s" line of the empty-stack notice
MessageKinds == {"summary", "emptyStackError"}

\* C12: a section is printed only when its switch is set: with PrintError
\* unset no Debug call prints a line that carries the failure's message,
\* with PrintSource unset no source file is read and no source item is
\* printed, with PrintStack unset neither "Stack trace:" nor a frame is
\* printed
C12_SectionsFollowToggles ==
    DebugCalled =>
        /\ ~last.seen.PrintError => Kinds(last.out) \cap MessageKinds = {}
        /\ ~last.seen.PrintSource =>
              /\ last.reads = 0
              /\ Kinds(last.out) \cap (SourceKinds \cup {"unreadable"}) = {}
        /\ ~last.seen.PrintStack =>
              Kinds(last.out) \cap {"stackHeader", "frame"} = {}

\* the mode of logger id
ModeOf(ls, id) == ls[id].config.Mode

\* the step is a call of Disable or of SetMode on logger id
ToggleStep(id) ==
    \/ \E b \in BOOLEAN : Disable(id, b)
    \/ \E mode \in ModeInputs : SetMode(id, mode)

\* Disable(true) leaves logger id Disabled and Disable(false) leaves it
\* Enabled
DisableSetsMode(id) ==
    \A b \in BOOLEAN :
        Disable(id, b) =>
            ModeOf(loggers', id) = IF b THEN ModeDisabled ELSE ModeEnabled

\* C13: the mode of a logger changes only in a call of Disable or SetMode,
\* Disable(true) leaves it Disabled and Disable(false) leaves it Enabled
\* whatever it was, and no call of Debug or Overload changes it
C13_ModeChangesOnToggleOnly ==
    [][\A id \in DOMAIN loggers :
          /\ DisableSetsMode(id)
          /\ ModeOf(loggers', id) # ModeOf(loggers, id) => ToggleStep(id)]_vars

\* C13 as the code has it: the mode of a logger changes only in a call of
\* Disable or SetMode or when SetConfig replaces the whole configuration,
\* Disable(true) leaves it Disabled and Disable(false) leaves it Enabled
\* whatever it was, and no call of Debug (with the Doctor and the
\* printing in it) or of Overload changes it
C13_ModeChangesOnRequestOnly ==
    [][\A id \in DOMAIN loggers :
          /\ DisableSetsMode(id)
          /\ ModeOf(loggers', id) # ModeOf(loggers, id) =>
                \/ ToggleStep(id)
                \/ last'.op = "SetConfig" /\ last'.id = id
          /\ (\/ last'.op \in {"Debug", "errlog.Debug"}
              \/ loggers'[id].stackDepthOverload # loggers[id].stackDepthOverload)
                => ModeOf(loggers', id) = ModeOf(loggers, id)]_vars

\* a Debug call that printed its sections on a logger that a toggle call
\* had Enabled, and that is Enabled still
C13_Witness ==
    /\ EnabledCall /\ last.err # Nil /\ last.outcome = "returned"
    /\ Kinds(OwnOut) \cap {"summary", "line", "frame"} # {}
    /\ last.given.Mode = ModeEnabled
    /\ ModeOf(loggers, last.id) = ModeEnabled

\* C14: when two goroutines call the package-level Debug with no lock, a
\* resolution parses the stack with a deltaDepth other than 2 in some
\* interleavings (the witness), and only in those where the other caller
\* was inside its call between the start of this caller's Overload and
\* its read of stackDepthOverload: a caller that met no other parses
\* with deltaDepth 2
C14_UnmixedParsesAtTwo ==
    \A g \in Goroutines :
        (goroutines[g].deltaDepth # 0 /\ ~goroutines[g].mixed)
            => goroutines[g].deltaDepth = 2

\* one resolution has read the other caller's Overload with its own
\* (deltaDepth 3) and the other has had its Overload cleared by the
\* first one's reset before it read (deltaDepth 1)
C14_Witness ==
    \E g, h \in Goroutines :
        /\ goroutines[g].deltaDepth >= 3
        /\ goroutines[h].deltaDepth = 1

\* DebugSource was called and went as far as handing a window to PrintSource
WindowHanded == last.op = "DebugSource" /\ "opts" \in DOMAIN last.r

\* C15: for margins >= 0 and a frame whose line t (its number minus 1) is
\* in the file of L lines, the window that DebugSource hands to
\* PrintSource has 0 <= StartLine <= t <= EndLine <= L-1
C15_WindowHoldsTarget ==
    WindowHanded =>
        LET t == last.args.debugLineNumber - 1
        IN  /\ 0 <= last.r.opts.StartLine
            /\ last.r.opts.StartLine <= t
            /\ t <= last.r.opts.EndLine
            /\ last.r.opts.EndLine <= Len(SourceLines) - 1

\* the items of the source lines among items
LineItems(items) == SelectSeq(items, LAMBDA item : item.kind = "line")

\* C16: PrintSource prints once each, in ascending order, the lines of
\* index StartLine to EndLine, both included, each with its index plus 1
C16_PrintsWholeWindow ==
    (last.op = "PrintSource" /\ ~last.r.panic) =>
        /\ Len(LineItems(last.r.out)) = last.args.EndLine - last.args.StartLine + 1
        /\ \A k \in 1..Len(LineItems(last.r.out)) :
              LineItems(last.r.out)[k].n = last.args.StartLine + k

\* findFailingLine was called and returned
FailingLineReturned == last.op = "findFailingLine" /\ ~last.r.panic

\* the identifier that findFailingLine reads on the line of the call
CalledWith(debugLine) ==
    regexpParseDebugLineParseVarName(At(SourceLines, debugLine - 1))

\* a single-line comment, indented or not
IsSingleLineComment(line) ==
    LET p == SkipClass(line, 0, Whitespace)
    IN  p + 2 <= Len(line) /\ Slice(line, p, p + 2) = <<"/", "/">>

\* the lines from the function boundary to the call that are neither
\* blank nor comments and hold a definition of the identifier
DefinitionLines(funcLine, debugLine) ==
    {i \in max(funcLine, 0)..(debugLine - 1) :
        /\ ~IsBlank(At(SourceLines, i))
        /\ ~IsSingleLineComment(At(SourceLines, i))
        /\ regexpFindVarDefinition(CalledWith(debugLine).name,
                                   At(SourceLines, i)).found}

\* C17: findFailingLine returns the first line, going backward from the
\* line of the call to the function boundary, that holds a definition of
\* the identifier given to Debug and is neither blank nor a single-line
\* comment, indented or not
C17_FirstDefinitionNotComment ==
    (FailingLineReturned /\ last.r.failingLineIndex # -1) =>
        /\ DefinitionLines(last.args.funcLine, last.args.debugLine) # {}
        /\ last.r.failingLineIndex =
              SetMax(DefinitionLines(last.args.funcLine, last.args.debugLine)
                         \cup {-1})

RECURSIVE BracketsClose(_, _, _, _)
\* the column, from j on, where the count of "(" and ")" is back to zero
\* after a "(" was opened; the last column when none is
BracketsClose(line, j, opened, closed) ==
    IF j >= Len(line) THEN Len(line) - 1
    ELSE LET o == opened + (IF At(line, j) = "(" THEN 1 ELSE 0)
             c == closed + (IF At(line, j) = ")" THEN 1 ELSE 0)
         IN  IF o > 0 /\ o = c THEN j ELSE BracketsClose(line, j + 1, o, c)

\* the match of the definition on the line that findFailingLine returned
MatchedDefinition ==
    regexpFindVarDefinition(CalledWith(last.args.debugLine).name,
                            At(SourceLines, last.r.failingLineIndex))

\* C18: on the line found, columnStart is where the definition of the
\* identifier begins, and columnEnd is where the count of "(" and ")",
\* taken from the end of the matched assignment on, is back to zero, or
\* the last column of the line when no "(" is opened
C18_SpanOfDefinition ==
    (FailingLineReturned /\ last.r.failingLineIndex # -1) =>
        /\ last.r.columnStart = MatchedDefinition.start
        /\ last.r.columnEnd =
              BracketsClose(At(SourceLines, last.r.failingLineIndex),
                            MatchedDefinition.end, 0, 0)

\* C19: findFailingLine never aborts; when the line of the call gives no
\* identifier, or no line from the function boundary to the call defines
\* it, it returns -1, and no line of the window is then highlighted
C19_NeverAborts ==
    /\ last.op = "findFailingLine" =>
          /\ ~last.r.panic
          /\ (\/ ~CalledWith(last.args.debugLine).found
              \/ DefinitionLines(last.args.funcLine, last.args.debugLine) = {})
                => last.r.failingLineIndex = -1
    /\ (WindowHanded /\ last.r.failing.failingLineIndex = -1) =>
          \A k \in 1..Len(last.r.out) :
              last.r.out[k].hs = -1 /\ last.r.out[k].he = -1

\* C20: when the failing line is in the window, PrintSource prints the
\* columns columnStart to columnEnd of it, and no others, as highlighted,
\* whatever the number of lines and their length, and prints every other
\* line of the window with no highlight
C20_HighlightIsTheSpan ==
    (/\ WindowHanded
     /\ last.r.failing.failingLineIndex >= last.r.opts.StartLine
     /\ last.r.failing.failingLineIndex <= last.r.opts.EndLine) =>
        /\ ~last.r.panic
        /\ \A k \in 1..Len(LineItems(last.r.out)) :
              IF LineItems(last.r.out)[k].n = last.r.failing.failingLineIndex + 1
              THEN /\ LineItems(last.r.out)[k].hs = last.r.failing.columnStart
                   /\ LineItems(last.r.out)[k].he = last.r.failing.columnEnd
              ELSE /\ LineItems(last.r.out)[k].hs = -1
                   /\ LineItems(last.r.out)[k].he = -1

\* the positions in items of the items of kind `kind` that show number n
Showing(items, kind, n) ==
    {k \in 1..Len(items) : items[k].kind = kind /\ items[k].n = n}

\* C21: when findFuncLine has found the line of the function, PrintSource
\* prints that line once and no more, as a line of the window or, when
\* its index is below StartLine, on its own before the window; "..."
\* follows the line printed on its own exactly when its index is below
\* StartLine - 1
C21_BoundaryLineShownOnce ==
    (WindowHanded /\ ~last.r.panic /\ last.r.opts.FuncLine # -1) =>
        LET f == last.r.opts.FuncLine
            alone == Showing(last.r.out, "funcLine", f + 1)
            inWindow == Showing(last.r.out, "line", f + 1)
        IN  /\ Cardinality(alone \cup inWindow) = 1
            /\ (alone # {}) = (f < last.r.opts.StartLine)
            /\ ("elision" \in Kinds(last.r.out)) = (f < last.r.opts.StartLine - 1)
            /\ \A k \in 1..Len(last.r.out) :
                  last.r.out[k].kind = "elision" => (k - 1) \in alone

\* the line of index i that PrintSource was given is blank
BlankAt(i) == IsBlank(At(last.r.lines, i))

\* C22: once DebugSource has clamped the window, trimmed its blank lines
\* and corrected it for the function line, a window that is not empty
\* starts on a line that is not blank and ends on one
C22_WindowEndsNotBlank ==
    (WindowHanded /\ last.r.opts.StartLine <= last.r.opts.EndLine) =>
        /\ ~BlankAt(last.r.opts.StartLine)
        /\ ~BlankAt(last.r.opts.EndLine)

\* C22 as the code has it: the range that deleteBlankLinesFromRange leaves
\* starts and ends, when it is not empty, on lines that are not blank; the
\* correction for the function line, which comes after, leaves EndLine
\* where it was, and the window starts on a blank line only where the
\* correction has put StartLine, on the line after the function line
C22_TrimmedRangeEndsNotBlank ==
    WindowHanded =>
        /\ last.r.range.start <= last.r.range.end =>
              ~BlankAt(last.r.range.start) /\ ~BlankAt(last.r.range.end)
        /\ last.r.opts.StartLine <= last.r.opts.EndLine =>
              /\ ~BlankAt(last.r.opts.EndLine)
              /\ BlankAt(last.r.opts.StartLine) =>
                    /\ last.r.opts.StartLine = last.r.opts.FuncLine + 1
                    /\ last.r.opts.StartLine # last.r.range.start

\* a window that is not empty and whose range lost a blank line at its end
C22_Witness ==
    /\ WindowHanded
    /\ last.r.opts.StartLine <= last.r.opts.EndLine
    /\ last.r.range.end <
          min(last.args.debugLineNumber + last.args.LinesAfter,
              Len(SourceLines) - 1)

\* the lines printStack printed for the call, in the order printed
FrameLines == SelectSeq(OwnOut, LAMBDA it : it.kind = "frame")

\* C23: printStack prints one line per frame, with its calling object, its
\* source path and its source line; unless DisableStackIndentation is set,
\* the line of a frame is indented in proportion to its depth in the chain
\* printed (the k-th line by k - 1 units), and when it is set no line is
\* indented
C23_FrameLinesIndentedByDepth ==
    (/\ EnabledCall
     /\ last.err # Nil
     /\ last.outcome = "returned"
     /\ last.seen.PrintStack
     /\ last.parsed >= 1) =>
        /\ Len(FrameLines) = last.parsed
        /\ \A k \in 1..Len(FrameLines) :
              /\ FrameLines[k].n = last.parsed - k
              /\ FrameLines[k].hs =
                    IF last.seen.DisableStackIndentation THEN 0 ELSE k - 1

\* the last step was a call of parseStackTrace
ParseCalled == last.op = "parseStackTrace"

\* the entries of the snapshot that follow the first 2 + d: the two first
\* entries are those of debug.Stack and of parseStackTrace itself
EntriesAfterCut ==
    SubSeq(last.args.below, last.args.deltaDepth + 1, Len(last.args.below))

\* frame k returned is entry k of those that follow the cut
FrameOfEntry(k) ==
    /\ last.r.frames[k].CallingObject = EntriesAfterCut[k].CallingObject
    /\ last.r.frames[k].SourcePathRef = EntriesAfterCut[k].SourcePathRef
    /\ Atoi(EntriesAfterCut[k].line).err = Nil =>
          last.r.frames[k].SourceLineRef = Atoi(EntriesAfterCut[k].line).value

\* C24: parseStackTrace(d) on a snapshot of a header line and N entries
\* returns the entries that follow the first 2 + d, innermost first; with
\* 2 + d entries or fewer it returns no frame and does not abort
C24_ReturnsEntriesAfterCut ==
    ParseCalled =>
        /\ last.r.outcome = "returned"
        /\ Len(last.r.frames) = Len(EntriesAfterCut)
        /\ \A k \in 1..Len(last.r.frames) : FrameOfEntry(k)

\* the entries after the cut whose line number strconv.Atoi cannot parse
UnparsedEntries ==
    {k \in 1..Len(EntriesAfterCut) : Atoi(EntriesAfterCut[k].line).err # Nil}

\* C25: when the line number of one frame cannot be parsed, parseStackTrace
\* still returns, with every frame of the sequence: that frame with
\* SourceLineRef = -1 and the others as they are; the failure starts no
\* further resolution that aborts or does not end
C25_UnparsedLineGivesSentinel ==
    (ParseCalled /\ Cardinality(UnparsedEntries) = 1) =>
        /\ last.r.outcome = "returned"
        /\ Len(last.r.frames) = Len(EntriesAfterCut)
        /\ \A k \in 1..Len(last.r.frames) :
              /\ FrameOfEntry(k)
              /\ k \in UnparsedEntries => last.r.frames[k].SourceLineRef = -1

\* DebugSource was called and went as far as calling findFuncLine
FuncLineSought == last.op = "DebugSource" /\ "funcLine" \in DOMAIN last.r

\* the indices i with 0 < i <= t of the lines that match the pattern of a
\* function declaration, t being what findFuncLine was given
DeclarationLines ==
    {i \in 1..last.args.debugLineNumber :
        i < Len(last.r.lines) /\ regexpFuncLine(At(last.r.lines, i))}

\* C26: findFuncLine(lines, t) returns the greatest index i with
\* 0 < i <= t whose line matches the pattern of a function declaration, or
\* -1 when there is none, and reads no line outside the sequence of lines
C26_NearestDeclarationAbove ==
    FuncLineSought =>
        /\ ~last.r.funcLine.panic
        /\ last.r.funcLine.line =
              IF DeclarationLines = {} THEN -1 ELSE SetMax(DeclarationLines)

\* C27: when the function line f that findFuncLine found is greater than
\* StartLine as the trimming left it, the correction makes StartLine
\* f + 1; otherwise it leaves StartLine as it was; it never changes EndLine
C27_CorrectionMovesStartOnly ==
    WindowHanded =>
        /\ last.r.opts.StartLine =
              IF last.r.funcLine.line > last.r.range.start
              THEN last.r.funcLine.line + 1
              ELSE last.r.range.start
        /\ last.r.opts.EndLine = last.r.range.end

\* a window whose start the correction moved past the function line
C27_Witness ==
    /\ WindowHanded
    /\ last.r.funcLine.line > last.r.range.start
    /\ last.r.opts.StartLine = last.r.funcLine.line + 1
    /\ last.r.opts.StartLine <= last.r.opts.EndLine

\* the last step was deleteBlankLinesFromRange, called twice over
BlankLinesDeleted == last.op = "deleteBlankLinesFromRange"

\* C28: deleteBlankLinesFromRange, given the start and end it has left,
\* leaves them as they are, whatever the lines, the start and the end it
\* was first given, also when the range was all blank and is now empty
C28_DeleteBlankLinesIdempotent ==
    BlankLinesDeleted => last.r.twice = last.r.once

\* a range inside the file, all of blank lines, that came out empty
C28_Witness ==
    /\ BlankLinesDeleted
    /\ 0 <= last.args.start
    /\ last.args.start < last.args.end
    /\ last.args.end < Len(SourceLines)
    /\ last.r.once.start > last.r.once.end
    /\ last.r.twice = last.r.once

\* C29: a Debug call on a logger made with NewLogger changes nothing of
\* any other logger: the stackDepthOverload of DefaultLogger is after the
\* call what it was before, whatever the number of frames parsed
C29_DebugLeavesOtherLoggers ==
    [][(last'.op = "Debug" /\ last'.id = CustomLoggerName) =>
          \A id \in DOMAIN loggers \ {CustomLoggerName} :
              loggers'[id] = loggers[id]]_vars

\* C30: the failing line that findFailingLine returns is not below the
\* call: when it is not -1, its index is between the index of the function
\* line and the index of the line of the Debug call (the frame's line
\* number minus 1), both included
C30_FailingLineNotBelowCall ==
    (FailingLineReturned /\ last.r.failingLineIndex # -1) =>
        /\ last.args.funcLine <= last.r.failingLineIndex
        /\ last.r.failingLineIndex <= last.args.debugLine - 1

====
